---- MODULE Spec2Model ----
(***************************************************************************)
(* Live trading execution engine of src/live_trader.py: the TradingState,  *)
(* the LiveMeanReversionStrategy signal generator, the three stream        *)
(* callbacks, the queue-consuming main loop with its periodic refresh, and *)
(* the shutdown path; with the broker of src/broker_handler.py and the     *)
(* emergency-stop flag of src/exception_handler.py as collaborators.       *)
(*                                                                         *)
(* Everything runs on one asyncio event loop: a coroutine runs without     *)
(* interruption from one await to the next.  The main task awaits at       *)
(* data_queue.get (pc = "get", and pc = "timeout" once the timer of        *)
(* wait_for has fired), at asyncio.sleep(5) (pc = "sleep") and, once       *)
(* cancelled, at `await stream_task` (pc = "finally"); the stream          *)
(* callbacks run only while the main task is suspended there.              *)
(*                                                                         *)
(* Quantities, prices and cash amounts are whole numbers; the code's       *)
(* float comparisons against 0.01 and the z-score comparisons are done in  *)
(* exact integer arithmetic (see ExceedsTolerance, ZLess).                 *)
(***************************************************************************)
EXTENDS Integers, Sequences, FiniteSets

(***************************************************************************)
(* Bounds of the model.                                                    *)
(***************************************************************************)
\* number of trade and bar events the callbacks enqueue in a run
MaxPriceEvents == 7
\* number of order and account updates the callbacks enqueue in a run
MaxUpdateEvents == 2
\* the bars the stream delivers at most
MaxBarEvents == 1
\* the times the trade price changes at most
MaxPriceTurns == 1
\* asyncio.Queue() is unbounded; the model lets at most this many items wait
MaxQueue == 2
\* zscore_period is a constructor parameter (main passes 20); the model
\* takes the smallest window over which |z| can exceed the 2.0 thresholds
\* and on which no window of the modelled prices has |z| = 2 exactly
ZscorePeriod == 6
\* number of get_signal calls the second strategy instance is given on its
\* own before the two instances are fed the same inputs
MaxWarmup == 1
\* the non-numeric prices a strategy window holds at most when the strategy
\* is called on its own
MaxTextPrices == 1
\* the error records kept
MaxErrorRecords == 2
\* CircuitBreaker(failure_threshold, recovery_timeout), and the last clock reading
FailureThreshold == 2
RecoveryTimeout == 2
MaxTime == 5

(***************************************************************************)
(* Program constants.                                                      *)
(***************************************************************************)
ZscoreUpper == 2
ZscoreLower == -2
ExitThreshold == 0
FixedSize == 10
\* the tolerance 0.01, in hundredths of a share
ToleranceHundredths == 1
\* the same 0.01, in thousandths of a share (get_signal takes any float position)
ToleranceMilli == 10

\* Python None for an integer-valued field; ids, cash amounts are >= 1
None == 0

(***************************************************************************)
(* Python values a price field can hold.                                   *)
(***************************************************************************)
PyNone == [kind |-> "none", val |-> 0]
PyNum(v) == [kind |-> "num", val |-> v]
\* a non-numeric value (a string) delivered as a price
PyStr == [kind |-> "str", val |-> 0]

\* bool(x)
Truthy(x) == x.kind = "str" \/ (x.kind = "num" /\ x.val # 0)

Abs(x) == IF x < 0 THEN 0 - x ELSE x

\* abs(d) > 0.01 for a whole number d
ExceedsTolerance(d) == Abs(d) * 100 > ToleranceHundredths

(***************************************************************************)
(* Input domains.                                                          *)
(***************************************************************************)
Symbols == {"SPY", "QQQ"}
TradedSymbol == "SPY"
PriceInputs == {PyNum(1), PyNum(2)}
BarInputs == {PyStr}
AccountSnapshots == {[cash |-> 200, value |-> 250]}
InitialPositions == {0, 10}
InitialAccounts == {[cash |-> None, value |-> None], [cash |-> 100, value |-> 100]}
PolledQtys == {0, 10}
PartialQtys == {4}
Severities == {"high", "critical"}
\* what get_signal can be handed as a price, and as a position (in
\* thousandths of a share: whole lots, dust of 0.005, and 0.01 exactly)
StrategyPriceInputs == PriceInputs \cup BarInputs
StrategyPositionInputs == {-10000, -10, -5, 0, 5, 10, 10000}

NoSignal == "none"

VARIABLES
    \* TradingState
    current_position_qty, active_order_id, target_position_qty,
    last_known_cash, last_known_portfolio_value,
    last_trade_price, last_bar_close,
    \* LiveMeanReversionStrategy: the rolling window and self.current_zscore
    \* (the z-score num / sqrt(var) as the pair of its parts)
    prices, current_zscore,
    \* main()
    data_queue, pc, refresh_due,
    \* BrokerAPIHandler and the broker behind it
    broker_order, stream_open, stream_task,
    \* ExceptionHandler
    emergency_stop_triggered,
    \* observation: what the last step logged, the gateway calls made, the
    \* items dequeued, the events enqueued, the signal last computed, the
    \* position when the current order was submitted, the position quantity
    \* the last step polled (<<>> when it polled none)
    log, gateway_calls, dequeued, n_prices, n_updates, n_bars, n_turns, last_signal,
    pos_at_submit, refreshed,
    \* the arguments of the get_signal call the last step made on the first
    \* strategy instance (<<>> when it made none)
    strategy_input,
    \* a second LiveMeanReversionStrategy instance with the same configuration:
    \* its window, its current_zscore, the signal it last returned, and the
    \* get_signal call the last step made on it (<<>> when it made none) with
    \* whether the two instances held equal windows and equal z-scores before
    replica_prices, replica_zscore, replica_signal, replica_input,
    \* ExceptionHandler: the records kept, the retry_with_backoff call in
    \* progress (its category and the number of times it has called func), and
    \* the handle_exception call each thread is in (past the append, before
    \* the callbacks)
    error_records, retry_call, handling,
    \* CircuitBreaker: its fields, the holder of its lock (None when free),
    \* where each calling thread is, and the clock time.time() reads
    state, failure_count, last_failure_time, lock, breaker_pc, now

trading_state == <<current_position_qty, active_order_id, target_position_qty,
                   last_known_cash, last_known_portfolio_value,
                   last_trade_price, last_bar_close>>

vars == <<current_position_qty, active_order_id, target_position_qty,
          last_known_cash, last_known_portfolio_value,
          last_trade_price, last_bar_close, prices, current_zscore, data_queue, pc,
          refresh_due, broker_order, stream_open, stream_task,
          emergency_stop_triggered,
          log, gateway_calls, dequeued, n_prices, n_updates, n_bars, n_turns, last_signal,
          pos_at_submit,
          refreshed, strategy_input,
          replica_prices, replica_zscore, replica_signal, replica_input,
          error_records, retry_call, handling,
          state, failure_count, last_failure_time, lock, breaker_pc, now>>

replica == <<replica_prices, replica_zscore, replica_signal, replica_input>>

breaker == <<state, failure_count, last_failure_time, lock, breaker_pc, now>>

resilience == <<error_records, retry_call, handling, breaker>>

\* the order_info of a queue item that is not an order update
NoOrderInfo == [client_order_id |-> None, status |-> "none", filled_qty |-> 0,
                side |-> "none"]

\* a thread that is in no handle_exception call
NotHandling == [status |-> "idle", category |-> "none", severity |-> "none"]

\* no retry_with_backoff call made yet
NoRetry == [status |-> "idle", category |-> "none", calls |-> 0]

\* the threads that call the exception handler and the circuit breaker
Threads == {1, 2}

NoOrder == [cid |-> None, side |-> "none", qty |-> 0, filled |-> 0, status |-> "none"]


(***************************************************************************)
(* LiveMeanReversionStrategy                                               *)
(***************************************************************************)
\* collections.deque(maxlen=zscore_period).append
DequeAppend(w, p) ==
    IF Len(w) < ZscorePeriod THEN Append(w, p) ELSE Append(Tail(w), p)

RECURSIVE SumVals(_)
SumVals(w) == IF w = <<>> THEN 0 ELSE Head(w).val + SumVals(Tail(w))

RECURSIVE SumSquares(_)
SumSquares(w) == IF w = <<>> THEN 0 ELSE Head(w).val * Head(w).val + SumSquares(Tail(w))

AllNumeric(w) == \A i \in 1..Len(w) : w[i].kind = "num"

\* n * (current_price - sma), n = len(prices)
ZNumerator(w) == Len(w) * w[Len(w)].val - SumVals(w)
\* n^2 * stdev^2
ZVariance(w) == Len(w) * SumSquares(w) - SumVals(w) * SumVals(w)

\* a / sqrt(v) < t, for v > 0
LessScaled(a, t, v) ==
    IF t >= 0 THEN a < 0 \/ a * a < t * t * v
              ELSE a < 0 /\ a * a > t * t * v

\* np.array(self.prices), np.mean, np.std raise on a non-numeric element
ZscoreRaises(w) == Len(w) >= ZscorePeriod /\ ~AllNumeric(w)

\* the length test of line 37 off by one
CalculateZscoreOffByOne(w) ==
    /\ Len(w) >= ZscorePeriod - 1
    /\ AllNumeric(w)
    /\ ZVariance(w) > 0

\* _calculate_zscore returns True: the window is full and stdev >= 1e-6
\* (for whole prices n^2 * variance is a whole number, so stdev < 1e-6 iff it is 0)
CalculateZscore(w) ==
    /\ Len(w) >= ZscorePeriod
    /\ AllNumeric(w)
    /\ ZVariance(w) > 0

ZLess(w, t) == LessScaled(ZNumerator(w), t, ZVariance(w))
ZGreater(w, t) == LessScaled(0 - ZNumerator(w), 0 - t, ZVariance(w))

\* self.current_zscore = None (lines 29, 38, 47): a z-score has var > 0
NoZscore == [num |-> 0, var |-> 0]

\* (current_price - sma) / stdev as the pair of its parts (line 52)
ZscoreOf(w) == [num |-> ZNumerator(w), var |-> ZVariance(w)]

\* self.current_zscore once _calculate_zscore has run on the window w, from
\* the value before it: None (lines 38, 47), the z-score of w (line 52), or
\* the value before when np.mean raises (line 43)
ZscoreAfter(w, before) ==
    IF ZscoreRaises(w) THEN before
    ELSE IF CalculateZscore(w) THEN ZscoreOf(w)
    ELSE NoZscore

\* z < t and z > t
ZscoreLess(z, t) == LessScaled(z.num, t, z.var)
ZscoreGreater(z, t) == LessScaled(0 - z.num, 0 - t, z.var)

\* a z-score that is computed only when none is held
ZscoreCached(before, after) == IF before # NoZscore THEN before ELSE after

\* z = self.current_zscore (line 62), read once _calculate_zscore has run:
\* before and after are the field's values around that call
ZscoreRead(before, after) == after

\* lines 62-85 without the branch for a short position (lines 69-72)
SignalAtLongOnly(z, position_milli) ==
    IF position_milli > ToleranceMilli /\ ~ZscoreLess(z, ExitThreshold) THEN "CLOSE"
    ELSE IF Abs(position_milli) < ToleranceMilli
         THEN IF ZscoreLess(z, ZscoreLower) THEN "BUY"
              ELSE IF ZscoreGreater(z, ZscoreUpper) THEN "SELL"
              ELSE "HOLD"
         ELSE "HOLD"

\* the signal get_signal returns for the z-score z and a position of
\* position_milli thousandths of a share (lines 62-85)
SignalAt(z, position_milli) ==
    LET closing ==
           \/ position_milli > ToleranceMilli /\ ~ZscoreLess(z, ExitThreshold)
           \/ position_milli < 0 - ToleranceMilli /\ ~ZscoreGreater(z, ExitThreshold)
    IN  IF closing THEN "CLOSE"
        ELSE IF Abs(position_milli) < ToleranceMilli
             THEN IF ZscoreLess(z, ZscoreLower) THEN "BUY"
                  ELSE IF ZscoreGreater(z, ZscoreUpper) THEN "SELL"
                  ELSE "HOLD"
             ELSE "HOLD"

\* get_signal on an instance whose window is w0 and whose current_zscore is
\* z0: the window and the current_zscore afterwards, and either the signal or
\* the exception
GetSignalOn(w0, z0, current_price, position_milli) ==
    LET w == DequeAppend(w0, current_price)
        raised == ZscoreRaises(w)
        z1 == ZscoreAfter(w, z0)
        \* not self._calculate_zscore() or self.current_zscore is None (line 59)
        holds == ~CalculateZscore(w) \/ z1 = NoZscore
    IN  [window |-> w,
         zscore |-> z1,
         raised |-> raised,
         signal |-> IF raised THEN NoSignal
                    ELSE IF holds THEN "HOLD"
                    ELSE SignalAt(ZscoreRead(z0, z1), position_milli)]

\* get_signal(current_price, current_position_qty) on main's strategy instance
get_signal(current_price, position_qty) ==
    GetSignalOn(prices, current_zscore, current_price, position_qty * 1000)


(***************************************************************************)
(* The state after main() has built its objects and fetched the initial    *)
(* account and position (an account fetch that fails leaves the cash None).*)
(***************************************************************************)
Init ==
    /\ current_position_qty \in InitialPositions
    /\ active_order_id = None
    /\ target_position_qty = 0
    \* the start-up fetch (lines 155-172): the account was read or was not,
    \* and so was the position
    /\ \E a \in InitialAccounts :
          /\ last_known_cash = a.cash
          /\ last_known_portfolio_value = a.value
    /\ last_trade_price = PyNone
    /\ last_bar_close = PyNone
    /\ prices = <<>>
    /\ current_zscore = NoZscore
    /\ data_queue = <<>>
    /\ pc = "get"
    /\ refresh_due = FALSE
    /\ broker_order = NoOrder
    /\ stream_open = TRUE
    /\ stream_task = "running"
    /\ emergency_stop_triggered = FALSE
    /\ log = {}
    /\ gateway_calls = <<>>
    /\ dequeued = <<>>
    /\ n_prices = 0
    /\ n_updates = 0
    /\ n_bars = 0
    /\ n_turns = 0
    /\ last_signal = NoSignal
    /\ pos_at_submit = 0
    /\ refreshed = <<>>
    /\ strategy_input = <<>>
    /\ replica_prices = <<>>
    /\ replica_zscore = NoZscore
    /\ replica_signal = NoSignal
    /\ replica_input = <<>>
    /\ error_records = <<>>
    /\ retry_call = NoRetry
    /\ handling = [t \in Threads |-> NotHandling]
    /\ state = "CLOSED"
    /\ failure_count = 0
    /\ last_failure_time = None
    /\ lock = None
    /\ breaker_pc = [t \in Threads |-> "idle"]
    /\ now = 1

(***************************************************************************)
(* Stream callbacks.  They run on the stream task, while main is suspended.*)
(***************************************************************************)
NextItemId == n_prices + n_updates + 1

\* the stream task runs its callbacks while main is suspended: at
\* data_queue.get, between the timer of wait_for and the TimeoutError it
\* raises in main, at asyncio.sleep, and at `await stream_task`
CanDeliver ==
    /\ stream_task = "running"
    /\ pc \in {"get", "timeout", "sleep", "finally"}
    /\ Len(data_queue) < MaxQueue

callback_frame == refreshed' = <<>> /\ strategy_input' = <<>> /\ UNCHANGED <<replica, resilience>>
                  /\ UNCHANGED <<prices, current_zscore, pc, refresh_due, stream_open, stream_task,
                              emergency_stop_triggered, gateway_calls, dequeued,
                              last_signal, pos_at_submit, target_position_qty>>

\* the trade is at another price than the last trade of the symbol
PriceTurns(trade_data) ==
    /\ trade_data.symbol = TradedSymbol
    /\ last_trade_price # PyNone
    /\ trade_data.price # last_trade_price

handle_trade(trade_data) ==
    /\ CanDeliver
    /\ n_prices < MaxPriceEvents
    /\ PriceTurns(trade_data) => n_turns < MaxPriceTurns
    /\ n_turns' = IF PriceTurns(trade_data) THEN n_turns + 1 ELSE n_turns
    /\ UNCHANGED <<n_updates, n_bars>>
    /\ IF trade_data.symbol = TradedSymbol
       THEN /\ last_trade_price' = trade_data.price
            /\ n_prices' = n_prices + 1
            /\ data_queue' = Append(data_queue,
                   [id |-> NextItemId, type |-> "trade", price |-> trade_data.price,
                    data |-> NoOrderInfo])
       ELSE UNCHANGED <<last_trade_price, data_queue, n_prices>>
    /\ log' = {}
    /\ callback_frame
    /\ UNCHANGED <<current_position_qty, active_order_id, last_known_cash,
                   last_known_portfolio_value, last_bar_close, broker_order>>

handle_bar(bar_data) ==
    /\ CanDeliver
    /\ n_prices < MaxPriceEvents
    /\ n_bars < MaxBarEvents
    /\ UNCHANGED <<n_updates, n_turns>>
    /\ IF bar_data.symbol = TradedSymbol
       THEN /\ last_bar_close' = bar_data.close
            /\ n_prices' = n_prices + 1
            /\ n_bars' = n_bars + 1
            /\ data_queue' = Append(data_queue,
                   [id |-> NextItemId, type |-> "bar", price |-> bar_data.close,
                    data |-> NoOrderInfo])
       ELSE UNCHANGED <<last_bar_close, data_queue, n_prices, n_bars>>
    /\ log' = {}
    /\ callback_frame
    /\ UNCHANGED <<current_position_qty, active_order_id, last_known_cash,
                   last_known_portfolio_value, last_trade_price, broker_order>>

\* the fill added whatever the side
FilledPositionUnsigned(position_qty, side, filled_qty) == position_qty + filled_qty

\* the position after a 'filled' update of the active order
FilledPosition(position_qty, side, filled_qty) ==
    position_qty + (IF side = "buy" THEN filled_qty ELSE 0 - filled_qty)

\* the test of line 189 without the comparison of the ids
UpdateMatchesAnyOrder(active, client_order_id) == active # None

\* an update never taken as the active order's
UpdateMatchesNoOrder(active, client_order_id) == FALSE

\* the update is about the active order (line 189)
UpdateMatches(active, client_order_id) ==
    active # None /\ client_order_id = active

\* the branch of line 204 for 'canceled' alone
ClearsActiveOrderOnCancelOnly(order_status) == order_status = "canceled"

\* the first report of an order taken as its end too
ClearsActiveOrderOnNew(order_status) ==
    order_status \in {"new", "canceled", "expired", "rejected", "done_for_day"}

\* the statuses that clear the active order without a fill (line 204)
ClearsActiveOrder(order_status) ==
    order_status \in {"canceled", "expired", "rejected", "done_for_day"}

\* handle_trade_update, on everything but the broker's own record of the order
handle_trade_update(update_data) ==
    /\ CanDeliver
    /\ n_updates < MaxUpdateEvents
    /\ n_updates' = IF update_data.kind \in {"order", "account"}
                    THEN n_updates + 1 ELSE n_updates
    /\ callback_frame
    /\ UNCHANGED <<last_trade_price, last_bar_close, n_prices, n_bars, n_turns>>
    /\ CASE update_data.kind = "order" ->
              LET order_info == update_data.order
                  matches == UpdateMatches(active_order_id, order_info.client_order_id)
              IN  /\ IF matches /\ order_info.status = "filled"
                     THEN /\ current_position_qty' = FilledPosition(current_position_qty,
                                   order_info.side, order_info.filled_qty)
                          /\ active_order_id' = None
                          /\ log' = {}
                     ELSE IF matches /\ order_info.status = "partially_filled"
                     THEN /\ UNCHANGED <<current_position_qty, active_order_id>>
                          /\ log' = {}
                     ELSE IF matches /\ ClearsActiveOrder(order_info.status)
                     THEN /\ active_order_id' = None
                          /\ UNCHANGED current_position_qty
                          /\ log' = {}
                     ELSE /\ UNCHANGED <<current_position_qty, active_order_id>>
                          /\ log' = {}
                  /\ data_queue' = Append(data_queue,
                         [id |-> NextItemId, type |-> "order_update", price |-> PyNone,
                          data |-> order_info])
                  /\ UNCHANGED <<last_known_cash, last_known_portfolio_value>>
         [] update_data.kind = "account" ->
              /\ last_known_cash' = update_data.cash
              /\ last_known_portfolio_value' = update_data.portfolio_value
              /\ data_queue' = Append(data_queue,
                     [id |-> NextItemId, type |-> "account_update", price |-> PyNone,
                      data |-> NoOrderInfo])
              /\ log' = {}
              /\ UNCHANGED <<current_position_qty, active_order_id>>
         [] OTHER ->
              /\ log' = {}
              /\ UNCHANGED <<current_position_qty, active_order_id, last_known_cash,
                             last_known_portfolio_value, data_queue>>


(***************************************************************************)
(* The broker's push stream: each event is handed to its callback.         *)
(***************************************************************************)
StreamTrade ==
    \E sym \in Symbols, p \in PriceInputs :
        handle_trade([symbol |-> sym, price |-> p])

StreamBar ==
    \E sym \in Symbols, c \in BarInputs :
        handle_bar([symbol |-> sym, close |-> c])

BrokerOrderLive == broker_order.status \in {"accepted", "new", "partially_filled"}

\* the (status, cumulative filled_qty) pairs the broker can report next
BrokerNextReports ==
    (IF broker_order.status = "accepted"
     THEN {[status |-> "new", filled_qty |-> 0]} ELSE {})
    \cup {[status |-> "partially_filled", filled_qty |-> q] :
             q \in {r \in PartialQtys : r > broker_order.filled /\ r < broker_order.qty}}
    \cup {[status |-> "filled", filled_qty |-> broker_order.qty]}
    \cup {[status |-> st, filled_qty |-> broker_order.filled] :
             st \in {"canceled", "expired", "done_for_day"}}
    \cup (IF broker_order.filled = 0
          THEN {[status |-> "rejected", filled_qty |-> 0]} ELSE {})

\* the broker moves its order on and the stream delivers the report
stream_order_update(r) ==
    /\ BrokerOrderLive
    /\ broker_order' = [broker_order EXCEPT !.status = r.status,
                                            !.filled = r.filled_qty]
    /\ handle_trade_update(
           [kind |-> "order",
            order |-> [client_order_id |-> broker_order.cid,
                       status |-> r.status,
                       filled_qty |-> r.filled_qty,
                       side |-> broker_order.side]])

StreamOrderUpdate == \E r \in BrokerNextReports : stream_order_update(r)

\* the statuses with which the broker ends an order
TerminalStatuses == {"filled", "canceled", "expired", "rejected", "done_for_day"}

\* the stream delivers the report that ends the broker's order
StreamTerminalUpdate ==
    \E r \in {x \in BrokerNextReports : x.status \in TerminalStatuses} :
        stream_order_update(r)

StreamAccountUpdate ==
    \E a \in AccountSnapshots :
        /\ handle_trade_update([kind |-> "account", cash |-> a.cash,
                                portfolio_value |-> a.value])
        /\ UNCHANGED broker_order

\* an event of the trade_updates stream that carries neither an order nor an account
StreamOtherUpdate ==
    /\ handle_trade_update([kind |-> "other"])
    /\ UNCHANGED broker_order

(***************************************************************************)
(* main(): the loop.                                                       *)
(***************************************************************************)
\* the top of the loop: the refresh when it is due, then data_queue.get
LoopTop == IF refresh_due THEN "refresh" ELSE "get"

\* ACCOUNT_REFRESH_INTERVAL seconds have passed since last_account_refresh_time
interval_elapses ==
    /\ pc \in {"get", "timeout", "sleep"}
    /\ ~refresh_due
    /\ refresh_due' = TRUE
    /\ refreshed' = <<>>
    /\ strategy_input' = <<>>
    /\ UNCHANGED <<replica, resilience>>
    /\ log' = {}
    /\ UNCHANGED <<current_position_qty, active_order_id, target_position_qty,
                   last_known_cash, last_known_portfolio_value, last_trade_price,
                   last_bar_close, prices, current_zscore, data_queue, pc, broker_order, stream_open, stream_task,
                   emergency_stop_triggered, gateway_calls, dequeued, n_prices, n_updates, n_bars, n_turns,
                   last_signal, pos_at_submit>>

\* the mismatch branch doing what its log line says ("Syncing with API state")
PositionSyncedToApi(local_qty, refreshed_qty) == refreshed_qty

\* what the position mismatch branch leaves in current_position_qty
PositionAfterRefresh(local_qty, refreshed_qty) == local_qty

\* what the broker answers to the account query: nothing (the query failed),
\* or an account whose cash and portfolio_value float() can or cannot read
AccountPolls ==
    {[kind |-> "none", cash |-> PyNone, value |-> PyNone]}
    \cup {[kind |-> "ok", cash |-> c, value |-> v] :
             c \in {PyNum(a.cash) : a \in AccountSnapshots} \cup {PyStr},
             v \in {PyNum(a.value) : a \in AccountSnapshots} \cup {PyStr}}

\* what the broker answers to the position query: a 404 (no position held),
\* any other failure, a position, or a position whose qty float() cannot read
NoPosition == [kind |-> "not_found", val |-> 0]
FetchFailed == [kind |-> "failed", val |-> 0]
UnreadableQty == [kind |-> "unreadable", val |-> 0]
PositionPolls == {NoPosition, FetchFailed, UnreadableQty} \cup {PyNum(q) : q \in PolledQtys}

\* BrokerAPIHandler.get_position: None for a 404 and for every other error
get_position(reply) == IF reply.kind \in {"num", "unreadable"} THEN reply ELSE PyNone

\* the periodic account and position refresh at the top of the loop: the
\* statements of its try block in their order, up to the one that raises
main_refresh(account_info, position_reply) ==
    /\ pc = "refresh"
    /\ pc' = "get"
    /\ LET cash_read == account_info.kind = "ok" /\ account_info.cash.kind = "num"
           \* float(cash) or float(portfolio_value) raises (lines 271-273)
           account_raises == /\ account_info.kind = "ok"
                             /\ \/ account_info.cash.kind # "num"
                                \/ account_info.value.kind # "num"
           cash_mismatch == /\ cash_read
                            /\ last_known_cash # None
                            /\ ExceedsTolerance(account_info.cash.val - last_known_cash)
           written == account_info.kind = "ok" /\ ~account_raises
           position_info == get_position(position_reply)
           \* float(qty) raises (line 280)
           qty_raises == ~account_raises /\ position_info.kind = "unreadable"
           raises == account_raises \/ qty_raises
           refreshed_qty == IF position_info.kind = "num" THEN position_info.val ELSE 0
           position_mismatch ==
               ~raises /\ ExceedsTolerance(refreshed_qty - current_position_qty)
       IN  /\ IF written
              THEN /\ last_known_cash' = account_info.cash.val
                   /\ last_known_portfolio_value' = account_info.value.val
              ELSE UNCHANGED <<last_known_cash, last_known_portfolio_value>>
           /\ current_position_qty' =
                  IF position_mismatch
                  THEN PositionAfterRefresh(current_position_qty, refreshed_qty)
                  ELSE current_position_qty
           /\ log' = (IF cash_mismatch THEN {"cash_mismatch"} ELSE {})
                     \cup (IF position_mismatch THEN {"position_mismatch"} ELSE {})
                     \cup (IF account_info.kind = "none"
                           THEN {"account_fetch_failed"} ELSE {})
                     \cup (IF ~account_raises /\ position_reply.kind = "failed"
                           THEN {"position_fetch_failed"} ELSE {})
                     \cup (IF raises THEN {"refresh_error"} ELSE {})
           /\ refreshed' = IF raises THEN <<>> ELSE <<refreshed_qty>>
           \* last_account_refresh_time is set by the last statement (line 285)
           /\ refresh_due' = IF raises THEN refresh_due ELSE FALSE
    /\ strategy_input' = <<>>
    /\ UNCHANGED <<replica, resilience>>
    /\ UNCHANGED <<active_order_id, target_position_qty, last_trade_price,
                   last_bar_close, prices, current_zscore, data_queue, broker_order, stream_open, stream_task,
                   emergency_stop_triggered, gateway_calls, dequeued, n_prices, n_updates, n_bars, n_turns,
                   last_signal, pos_at_submit>>

\* the 1 s timer of asyncio.wait_for(data_queue.get(), timeout=1.0) fires with
\* nothing queued: main's wake-up is scheduled, and wait_for cancels the get
\* and waits for it before it raises TimeoutError
wait_times_out ==
    /\ pc = "get"
    /\ data_queue = <<>>
    /\ pc' = "timeout"
    /\ refreshed' = <<>>
    /\ strategy_input' = <<>>
    /\ UNCHANGED <<replica, resilience>>
    /\ log' = {}
    /\ UNCHANGED <<current_position_qty, active_order_id, target_position_qty,
                   last_known_cash, last_known_portfolio_value, last_trade_price,
                   last_bar_close, prices, current_zscore, data_queue, refresh_due, broker_order,
                   stream_open, stream_task, emergency_stop_triggered, gateway_calls,
                   dequeued, n_prices, n_updates, n_bars, n_turns, last_signal, pos_at_submit>>

\* TimeoutError reaches main (lines 351-357): what was queued meanwhile stays
\* queued, and main goes to the top of the loop
main_timeout ==
    /\ pc = "timeout"
    /\ pc' = LoopTop
    /\ refreshed' = <<>>
    /\ strategy_input' = <<>>
    /\ UNCHANGED <<replica, resilience>>
    /\ log' = {}
    /\ UNCHANGED <<current_position_qty, active_order_id, target_position_qty,
                   last_known_cash, last_known_portfolio_value, last_trade_price,
                   last_bar_close, prices, current_zscore, data_queue, refresh_due, broker_order,
                   stream_open, stream_task, emergency_stop_triggered, gateway_calls, dequeued,
                   n_prices, n_updates, n_bars, n_turns, last_signal, pos_at_submit>>


\* a LifoQueue in place of the Queue
QueueGetIndexLifo(q) == Len(q)

\* data_queue.get(): the position in the queue of the item handed out
QueueGetIndex(q) == 1

RemoveAt(q, i) == SubSeq(q, 1, i - 1) \o SubSeq(q, i + 1, Len(q))

\* the submission branch without its test of active_order_id
MaySubmitIgnoringActive(signal, active) == signal # NoSignal

\* the guard of the submission branch (line 305)
MaySubmit(signal, active) == signal # NoSignal /\ active = None

\* the target taken as a size, whatever the direction of the signal
TargetForUnsigned(signal, position_qty) ==
    CASE signal \in {"BUY", "SELL"} -> FixedSize
      [] signal = "CLOSE" -> 0
      [] OTHER -> position_qty

\* the target position of a signal (lines 308-315)
TargetFor(signal, position_qty) ==
    CASE signal = "BUY" -> FixedSize
      [] signal = "SELL" -> 0 - FixedSize
      [] signal = "CLOSE" -> 0
      [] OTHER -> position_qty

\* the id built once, outside the loop
StaleClientOrderId(calls) == 1

\* f"live_{uuid.uuid4()}": a value no earlier call returned
NewClientOrderId(calls) == Len(calls) + 1

\* the loop without its inner except Exception: the error ends main
AfterLoopErrorEscapes == "done"

\* where the loop continues after the except Exception handler (lines 358-360)
AfterLoopError == "sleep"

\* what BrokerAPIHandler.place_order hands back: None, or the order as the
\* broker acknowledged it
AckInputs == {"failed", "accepted", "rejected"}

\* set_active_order before place_order has returned an order
ActiveSetBeforeAck(ack, client_order_id, active) ==
    IF ack = "rejected" THEN None ELSE client_order_id

\* the acknowledged order never stored
ActiveLeftUnset(ack, client_order_id, active) == active

\* state.active_order_id after place_order has returned (lines 335-342)
ActiveAfterAck(ack, client_order_id, active) ==
    CASE ack = "accepted" -> client_order_id
      [] ack = "rejected" -> None
      [] OTHER -> active

\* every item taken from the queue run through the strategy
IsPriceEventAlways(data_type) == TRUE

\* the items main runs through the strategy (line 293)
IsPriceEvent(data_type) == data_type \in {"trade", "bar"}

\* one queue item taken and processed (lines 289-349, 358-360)
main_process(ack) ==
    /\ pc = "get"
    /\ data_queue # <<>>
    /\ LET idx == QueueGetIndex(data_queue)
           queued_item == data_queue[idx]
           data_type == queued_item.type
           is_price_event == IsPriceEvent(data_type)
           current_price == IF ~Truthy(last_trade_price) /\ data_type = "bar"
                            THEN last_bar_close ELSE last_trade_price
           has_price == is_price_event /\ Truthy(current_price)
       IN
       \* what strategy.get_signal does when it is called (line 300)
       \E gs \in {get_signal(current_price, current_position_qty)} :
       LET \* get_signal raises, or the log line's {current_price:.2f} does
           raised == has_price /\ (gs.raised \/ current_price.kind # "num")
           \* signal is None (line 293) until get_signal has returned (line 300)
           signal == IF has_price /\ ~gs.raised THEN gs.signal ELSE NoSignal
           target == TargetFor(signal, current_position_qty)
           qty_to_trade == target - current_position_qty
           submits == MaySubmit(signal, active_order_id)
           places == submits /\ ExceedsTolerance(qty_to_trade)
           side == IF qty_to_trade > 0 THEN "buy" ELSE "sell"
           client_order_id == NewClientOrderId(gateway_calls)
       IN  /\ data_queue' = RemoveAt(data_queue, idx)
           /\ dequeued' = Append(dequeued, queued_item.id)
           /\ prices' = IF has_price THEN gs.window ELSE prices
           /\ current_zscore' = IF has_price THEN gs.zscore ELSE current_zscore
           /\ last_signal' = signal
           /\ IF raised
              THEN /\ pc' = AfterLoopError
                   /\ log' = {"loop_error"}
                   /\ UNCHANGED <<target_position_qty, active_order_id, broker_order,
                                  gateway_calls, pos_at_submit>>
              ELSE /\ pc' = LoopTop
                   /\ target_position_qty' = IF submits THEN target ELSE target_position_qty
                   /\ IF places
                      THEN /\ gateway_calls' = Append(gateway_calls,
                                 [client_order_id |-> client_order_id, result |-> ack,
                                  side |-> side, qty |-> Abs(qty_to_trade),
                                  order_type |-> "market"])
                           /\ broker_order' =
                                 IF ack = "failed" THEN broker_order
                                 ELSE [cid |-> client_order_id, side |-> side,
                                       qty |-> Abs(qty_to_trade), filled |-> 0,
                                       status |-> ack]
                           /\ active_order_id' =
                                 ActiveAfterAck(ack, client_order_id, active_order_id)
                           /\ pos_at_submit' = IF ack = "failed" THEN pos_at_submit
                                               ELSE current_position_qty
                           /\ log' = IF ack = "failed" THEN {"order_failed"} ELSE {}
                      ELSE /\ UNCHANGED <<gateway_calls, broker_order, active_order_id,
                                          pos_at_submit>>
                           /\ log' = IF signal # NoSignal /\ active_order_id # None
                                     THEN {"holding_off"}
                                     ELSE IF is_price_event /\ ~has_price
                                     THEN {"no_price"} ELSE {}
           /\ strategy_input' =
                 IF has_price
                 THEN <<[price |-> current_price,
                         position_milli |-> current_position_qty * 1000]>>
                 ELSE <<>>
    /\ refreshed' = <<>>
    /\ UNCHANGED <<replica, resilience>>
    /\ UNCHANGED <<current_position_qty, last_known_cash, last_known_portfolio_value,
                   last_trade_price, last_bar_close, refresh_due, stream_open, stream_task,
                   emergency_stop_triggered, n_prices, n_updates, n_bars, n_turns>>

\* asyncio.sleep(5) after a loop error is over
main_resume ==
    /\ pc = "sleep"
    /\ pc' = LoopTop
    /\ refreshed' = <<>>
    /\ strategy_input' = <<>>
    /\ UNCHANGED <<replica, resilience>>
    /\ log' = {}
    /\ UNCHANGED <<current_position_qty, active_order_id, target_position_qty,
                   last_known_cash, last_known_portfolio_value, last_trade_price,
                   last_bar_close, prices, current_zscore, data_queue, refresh_due, broker_order,
                   stream_open, stream_task, emergency_stop_triggered, gateway_calls, dequeued,
                   n_prices, n_updates, n_bars, n_turns, last_signal, pos_at_submit>>

\* what becomes of a cancellation of the main task: CancelledError is raised
\* at main's await, or asyncio.wait_for gives main the item that was already
\* waiting and the cancellation is lost (Python before 3.12)
CancelOutcomes == {"raised", "swallowed"}

\* what stream.stop_ws() does in stop_streaming
StopOutcomes == {"returns", "raises"}

\* shutdown(sig, loop) cancels every task (lines 397-402).  Cancelled at its
\* await, main leaves the loop and its finally block cancels the stream task
\* and waits for it (line 372); when wait_for swallows the cancellation main
\* stays in its loop, and the stream task, cancelled too, has ended
shutdown(cancel) ==
    /\ pc \in {"get", "timeout", "sleep"}
    /\ cancel = "swallowed" => (pc = "get" /\ data_queue # <<>>)
    /\ pc' = IF cancel = "raised" THEN "finally" ELSE pc
    /\ stream_task' = IF cancel = "swallowed" THEN "done" ELSE stream_task
    /\ refreshed' = <<>>
    /\ strategy_input' = <<>>
    /\ UNCHANGED <<replica, resilience>>
    /\ log' = {}
    /\ UNCHANGED <<current_position_qty, active_order_id, target_position_qty,
                   last_known_cash, last_known_portfolio_value, last_trade_price,
                   last_bar_close, prices, current_zscore, data_queue, refresh_due, broker_order,
                   stream_open, emergency_stop_triggered, gateway_calls, dequeued,
                   n_prices, n_updates, n_bars, n_turns, last_signal, pos_at_submit>>

\* the stream task has ended; if broker.stream is set main awaits
\* broker.stop_streaming() (line 380), which clears it unless stop_ws raises,
\* and returns
main_stop_streaming(stop) ==
    /\ pc = "finally"
    /\ pc' = "done"
    /\ stream_task' = "done"
    /\ stream_open' = IF stop = "returns" THEN FALSE ELSE stream_open
    /\ refreshed' = <<>>
    /\ strategy_input' = <<>>
    /\ UNCHANGED <<replica, resilience>>
    /\ log' = IF stream_open /\ stop = "raises" THEN {"stop_error"} ELSE {}
    /\ UNCHANGED <<current_position_qty, active_order_id, target_position_qty,
                   last_known_cash, last_known_portfolio_value, last_trade_price,
                   last_bar_close, prices, current_zscore, data_queue, refresh_due, broker_order,
                   emergency_stop_triggered, gateway_calls, dequeued,
                   n_prices, n_updates, n_bars, n_turns, last_signal, pos_at_submit>>

\* how Stream._run_forever ends while main is in its loop: it returns, or it
\* raises KeyboardInterrupt or an Exception and start_streaming awaits
\* stop_streaming (lines 337, 340), where stop_ws returns or raises
StreamEnds == {"returns", "interrupted_stopped", "interrupted_stop_failed",
               "raises_stopped", "raises_stop_failed"}

\* BrokerAPIHandler.start_streaming ends: no callback runs any more, and
\* broker.stream is cleared when the stream raised and stop_ws returned; the
\* interruption is logged at info level, the Exception as an error
start_streaming(end) ==
    /\ stream_task = "running"
    /\ pc \in {"get", "timeout", "sleep"}
    /\ stream_task' = "done"
    /\ stream_open' = IF end \in {"interrupted_stopped", "raises_stopped"}
                      THEN FALSE ELSE stream_open
    /\ refreshed' = <<>>
    /\ strategy_input' = <<>>
    /\ UNCHANGED <<replica, resilience>>
    /\ log' = CASE end = "returns" -> {}
                [] end = "interrupted_stopped" -> {}
                [] end = "interrupted_stop_failed" -> {"stop_error"}
                [] end = "raises_stopped" -> {"stream_error"}
                [] end = "raises_stop_failed" -> {"stream_error", "stop_error"}
    /\ UNCHANGED <<current_position_qty, active_order_id, target_position_qty,
                   last_known_cash, last_known_portfolio_value, last_trade_price,
                   last_bar_close, prices, current_zscore, data_queue, pc, refresh_due, broker_order,
                   emergency_stop_triggered, gateway_calls, dequeued,
                   n_prices, n_updates, n_bars, n_turns, last_signal, pos_at_submit>>

(***************************************************************************)
(* ExceptionHandler: the error records, the emergency-stop flag and        *)
(* retry_with_backoff.                                                     *)
(***************************************************************************)
ErrorCategories == {"network", "api", "order_execution", "data_quality",
                    "risk_management", "system", "strategy"}
ErrorSeverities == {"low", "medium", "high", "critical"}

\* the error callbacks of the category: none registered, all return, one raises
CallbackOutcomes == {"none", "returns", "raises"}

\* what the wrapped function does when it is called: return, or raise an Exception
RetryOutcomes == {"returns", "raises"}

\* everything the resilience layer leaves alone in the engine
engine_frame ==
    /\ refreshed' = <<>>
    /\ strategy_input' = <<>>
    /\ UNCHANGED replica
    /\ UNCHANGED <<current_position_qty, active_order_id, target_position_qty,
                   last_known_cash, last_known_portfolio_value, last_trade_price,
                   last_bar_close, prices, current_zscore, data_queue, pc, refresh_due, broker_order,
                   stream_open, stream_task, gateway_calls, dequeued, n_prices, n_updates, n_bars, n_turns, last_signal,
                   pos_at_submit>>

\* the emergency stop triggered by every severity from HIGH up
TriggersEmergencyStopFromHigh(severity) == severity \in {"high", "critical"}

\* the test before _trigger_emergency_stop (line 189)
TriggersEmergencyStop(severity) == severity = "critical"

\* the thread retry_with_backoff runs on
RetryThread == 1

\* handle_exception up to the release of self._lock (lines 164-181): the
\* record is built and appended
handle_exception(t, category, severity) ==
    /\ handling[t].status = "idle"
    /\ Len(error_records) < MaxErrorRecords
    /\ error_records' = Append(error_records,
                               [category |-> category, severity |-> severity])
    /\ handling' = [handling EXCEPT ![t] = [status |-> "callbacks",
                                            category |-> category,
                                            severity |-> severity]]
    /\ log' = {}
    /\ engine_frame
    /\ UNCHANGED <<emergency_stop_triggered, breaker>>

\* the rest of handle_exception (lines 183-192): the callbacks run with what
\* they raise caught and logged, then the emergency stop on CRITICAL; a
\* retry_with_backoff that made the call raises the last exception again
handle_exception_return(t, callback) ==
    /\ handling[t].status = "callbacks"
    /\ handling' = [handling EXCEPT ![t] = NotHandling]
    /\ emergency_stop_triggered' =
           (emergency_stop_triggered \/ TriggersEmergencyStop(handling[t].severity))
    /\ retry_call' = IF t = RetryThread /\ retry_call.status = "recording"
                     THEN [retry_call EXCEPT !.status = "raised"]
                     ELSE retry_call
    /\ log' = IF callback = "raises" THEN {"callback_error"} ELSE {}
    /\ engine_frame
    /\ UNCHANGED <<error_records, breaker>>

\* ExceptionHandler.reset_emergency_stop (lines 320-323)
reset_emergency_stop ==
    /\ emergency_stop_triggered' = FALSE
    /\ log' = {}
    /\ engine_frame
    /\ UNCHANGED resilience

\* RetryConfig.max_retries of the category, as _init_retry_configs sets it
MaxRetries(category) ==
    CASE category = "network" -> 5
      [] category = "api" -> 3
      [] category = "order_execution" -> 2
      [] category = "data_quality" -> 3
      [] category = "risk_management" -> 1
      [] category = "system" -> 2
      [] category = "strategy" -> 1

\* a loop over range(max_retries + 2)
RetryAttemptsOneMore(category) == MaxRetries(category) + 2

\* the number of iterations of the retry loop: range(max_retries + 1)
RetryAttempts(category) == MaxRetries(category) + 1

\* the severity of the record of the final failure (line 233)
RetrySeverity(category) ==
    IF category \in {"order_execution", "risk_management"} THEN "high" ELSE "medium"

\* retry_with_backoff is called: the configuration of the category is looked up
retry_with_backoff(category) ==
    /\ retry_call.status \notin {"running", "recording"}
    /\ handling[RetryThread].status = "idle"
    /\ retry_call' = [status |-> "running", category |-> category, calls |-> 0]
    /\ log' = {}
    /\ engine_frame
    /\ UNCHANGED <<error_records, handling, emergency_stop_triggered, breaker>>

\* one iteration of the retry loop: func is called; its result is returned, or
\* its exception is kept and the loop sleeps before the next iteration; after
\* the last iteration handle_exception is called with the failure
retry_attempt(outcome) ==
    /\ retry_call.status = "running"
    /\ retry_call.calls < RetryAttempts(retry_call.category)
    /\ LET calls == retry_call.calls + 1
       IN  IF outcome = "returns"
           THEN /\ retry_call' = [retry_call EXCEPT !.status = "returned", !.calls = calls]
                /\ log' = {}
                /\ engine_frame
                /\ UNCHANGED <<error_records, handling, emergency_stop_triggered, breaker>>
           ELSE IF calls < RetryAttempts(retry_call.category)
           THEN /\ retry_call' = [retry_call EXCEPT !.calls = calls]
                /\ log' = {"retry_sleep"}
                /\ engine_frame
                /\ UNCHANGED <<error_records, handling, emergency_stop_triggered, breaker>>
           ELSE /\ retry_call' = [retry_call EXCEPT !.status = "recording", !.calls = calls]
                /\ handle_exception(RetryThread, retry_call.category,
                                    RetrySeverity(retry_call.category))

(***************************************************************************)
(* CircuitBreaker: one breaker called from several threads.                *)
(***************************************************************************)
\* what the wrapped function does when it is called: return, raise an
\* instance of expected_exception, or raise any other exception
FuncOutcomes == {"returns", "expected", "unexpected"}

\* a reset attempted whatever the time since the last failure
ShouldAttemptResetAtOnce(failure_time, time) == failure_time # None

\* _should_attempt_reset (lines 108-111)
ShouldAttemptReset(failure_time, time) ==
    failure_time # None /\ time - failure_time >= RecoveryTimeout

\* the breaker opening only above the threshold
TripsAboveThreshold(count) == count > FailureThreshold

\* the test of _on_failure (line 123)
Trips(count) == count >= FailureThreshold

\* with self._lock: the lock can be taken
LockFree(holder) == holder = None

\* call() up to the point where func is called (lines 93-101): the lock is
\* taken; an OPEN breaker either moves to HALF_OPEN or rejects the call
call(t) ==
    /\ breaker_pc[t] = "idle"
    /\ LockFree(lock)
    /\ IF state = "OPEN" /\ ~ShouldAttemptReset(last_failure_time, now)
       THEN /\ log' = {"call_rejected"}
            /\ UNCHANGED <<state, lock, breaker_pc>>
       ELSE /\ state' = IF state = "OPEN" THEN "HALF_OPEN" ELSE state
            /\ lock' = t
            /\ breaker_pc' = [breaker_pc EXCEPT ![t] = "func"]
            /\ log' = {"func_called"}
    /\ UNCHANGED <<failure_count, last_failure_time, now>>
    /\ engine_frame
    /\ UNCHANGED <<error_records, retry_call, handling, emergency_stop_triggered>>

\* func comes back (lines 101-106): _on_success, or _on_failure for an
\* expected exception; any other exception leaves the fields as they are;
\* the lock is released on every way out
call_finish(t, outcome) ==
    /\ breaker_pc[t] = "func"
    /\ breaker_pc' = [breaker_pc EXCEPT ![t] = "idle"]
    /\ lock' = IF lock = t THEN None ELSE lock
    /\ CASE outcome = "returns" ->
              /\ failure_count' = 0
              /\ state' = "CLOSED"
              /\ UNCHANGED last_failure_time
         [] outcome = "expected" ->
              /\ failure_count' = failure_count + 1
              /\ last_failure_time' = now
              /\ state' = IF Trips(failure_count + 1) THEN "OPEN" ELSE state
         [] OTHER ->
              UNCHANGED <<state, failure_count, last_failure_time>>
    /\ log' = {outcome}
    /\ UNCHANGED now
    /\ engine_frame
    /\ UNCHANGED <<error_records, retry_call, handling, emergency_stop_triggered>>

\* time passes
tick ==
    /\ now < MaxTime
    /\ now' = now + 1
    /\ log' = {}
    /\ UNCHANGED <<state, failure_count, last_failure_time, lock, breaker_pc>>
    /\ engine_frame
    /\ UNCHANGED <<error_records, retry_call, handling, emergency_stop_triggered>>

(***************************************************************************)
(* The trade_updates stream delivering again an update of an order that    *)
(* has already ended (a replay after the websocket reconnects).            *)
(***************************************************************************)
RedeliveredStatuses == {"filled", "canceled"}

\* the order of gateway call number i has ended at the broker
OrderEnded(i) ==
    /\ gateway_calls[i].result # "failed"
    /\ \/ gateway_calls[i].client_order_id # broker_order.cid
       \/ ~BrokerOrderLive

StreamRedelivery ==
    \E i \in 1..Len(gateway_calls), st \in RedeliveredStatuses :
        /\ OrderEnded(i)
        /\ handle_trade_update(
               [kind |-> "order",
                order |-> [client_order_id |-> gateway_calls[i].client_order_id,
                           status |-> st,
                           filled_qty |-> IF st = "filled" THEN gateway_calls[i].qty ELSE 0,
                           side |-> gateway_calls[i].side]])
        /\ UNCHANGED broker_order

(***************************************************************************)
(* LiveMeanReversionStrategy on its own: two instances built with the same *)
(* parameters.  The second may have a history of its own; from then on     *)
(* every call is made on both with the same arguments.                     *)
(***************************************************************************)
\* self.prices, created in __init__ (line 28): each instance has its own
InstanceWindow(own, other) == own

strategy_frame ==
    /\ refreshed' = <<>>
    /\ UNCHANGED resilience
    /\ log' = {}
    /\ UNCHANGED <<current_position_qty, active_order_id, target_position_qty,
                   last_known_cash, last_known_portfolio_value, last_trade_price,
                   last_bar_close, data_queue, pc, refresh_due, broker_order,
                   stream_open, stream_task, emergency_stop_triggered, gateway_calls, dequeued,
                   n_prices, n_updates, n_bars, n_turns, pos_at_submit>>

\* the non-numeric prices in the window w
TextPrices(w) == Cardinality({i \in 1..Len(w) : w[i].kind # "num"})

\* get_signal(current_price, position) on the second instance
replica_call(current_price, position_milli) ==
    \E gs \in {GetSignalOn(InstanceWindow(replica_prices, prices), replica_zscore,
                            current_price, position_milli)} :
        /\ replica_prices' = gs.window
        /\ replica_zscore' = gs.zscore
        /\ replica_signal' = gs.signal
        /\ replica_input' = <<[price |-> current_price,
                               position_milli |-> position_milli,
                               windows_agreed |-> replica_prices = prices,
                               zscores_agreed |-> replica_zscore = current_zscore]>>

\* get_signal(current_price, position) on the first instance, and the same
\* call on the second
strategy_call(current_price, position_milli) ==
    /\ TextPrices(DequeAppend(prices, current_price)) <= MaxTextPrices
    /\ TextPrices(DequeAppend(replica_prices, current_price)) <= MaxTextPrices
    /\ \E gs \in {GetSignalOn(InstanceWindow(prices, replica_prices), current_zscore,
                               current_price, position_milli)} :
           /\ prices' = gs.window
           /\ current_zscore' = gs.zscore
           /\ last_signal' = gs.signal
    /\ strategy_input' = <<[price |-> current_price, position_milli |-> position_milli]>>
    /\ replica_call(current_price, position_milli)
    /\ strategy_frame

\* a call made on the second instance alone, before the first is used
replica_warmup(current_price, position_milli) ==
    /\ prices = <<>>
    /\ Len(replica_prices) < MaxWarmup
    /\ TextPrices(DequeAppend(replica_prices, current_price)) <= MaxTextPrices
    /\ replica_call(current_price, position_milli)
    /\ strategy_input' = <<>>
    /\ UNCHANGED <<prices, current_zscore, last_signal>>
    /\ strategy_frame

StrategyCall ==
    \E p \in StrategyPriceInputs, q \in StrategyPositionInputs : strategy_call(p, q)

ReplicaWarmup ==
    \E p \in StrategyPriceInputs, q \in StrategyPositionInputs : replica_warmup(p, q)

NextStrategy ==
    \/ StrategyCall
    \/ ReplicaWarmup

SpecStrategy == Init /\ [][NextStrategy]_vars

MainRefresh == \E a \in AccountPolls, q \in PositionPolls : main_refresh(a, q)
MainProcess == \E ack \in AckInputs : main_process(ack)
Shutdown == \E cancel \in CancelOutcomes : shutdown(cancel)
MainStopStreaming == \E stop \in StopOutcomes : main_stop_streaming(stop)
StartStreaming == \E end \in StreamEnds : start_streaming(end)

\* a thread that is not inside retry_with_backoff
Outside(t) == t = RetryThread => retry_call.status \notin {"running", "recording"}

\* handle_exception called with an error of the order path
HandleException ==
    /\ \E severity \in Severities :
          handle_exception(RetryThread, "order_execution", severity)
    /\ UNCHANGED retry_call

\* handle_exception called by any caller
HandleAnyException ==
    /\ \E t \in Threads, category \in ErrorCategories, severity \in ErrorSeverities :
          Outside(t) /\ handle_exception(t, category, severity)
    /\ UNCHANGED retry_call

HandleExceptionReturn ==
    \E t \in Threads, callback \in CallbackOutcomes : handle_exception_return(t, callback)

RetryWithBackoff == \E category \in ErrorCategories : retry_with_backoff(category)
RetryAttempt == \E outcome \in RetryOutcomes : retry_attempt(outcome)
Call == \E t \in Threads : call(t)
CallFinish == \E t \in Threads, outcome \in FuncOutcomes : call_finish(t, outcome)

Next ==
    \/ StreamTrade
    \/ StreamBar
    \/ StreamOrderUpdate
    \/ StreamAccountUpdate
    \/ StreamOtherUpdate
    \/ interval_elapses
    \/ MainRefresh
    \/ wait_times_out
    \/ main_timeout
    \/ MainProcess
    \/ main_resume
    \/ Shutdown
    \/ MainStopStreaming

Spec == Init /\ [][Next]_vars

\* the order path of the engine with the ways it ends: shutdown() cancels
\* the tasks and main runs its finally block, and the stream task ends on its own,
\* after which main goes on alone.
NextShutdown ==
    \/ StreamTrade
    \/ StreamOrderUpdate
    \/ interval_elapses
    \/ MainRefresh
    \/ wait_times_out
    \/ main_timeout
    \/ MainProcess
    \/ Shutdown
    \/ MainStopStreaming
    \/ StartStreaming

SpecShutdown == Init /\ [][NextShutdown]_vars

\* the order path of the engine with an ExceptionHandler beside it
NextEmergency ==
    \/ StreamTrade
    \/ StreamOrderUpdate
    \/ wait_times_out
    \/ main_timeout
    \/ MainProcess
    \/ HandleException
    \/ HandleExceptionReturn
    \/ reset_emergency_stop

SpecEmergency == Init /\ [][NextEmergency]_vars

\* the ExceptionHandler on its own
NextHandler ==
    \/ HandleAnyException
    \/ HandleExceptionReturn
    \/ reset_emergency_stop
    \/ RetryWithBackoff
    \/ RetryAttempt

SpecHandler == Init /\ [][NextHandler]_vars

\* one CircuitBreaker called from the threads
NextBreaker ==
    \/ Call
    \/ CallFinish
    \/ tick

SpecBreaker == Init /\ [][NextBreaker]_vars

\* the running engine (main inside its loop) on a stream that may deliver an
\* order update again
NextRedelivery ==
    \/ StreamTrade
    \/ StreamOrderUpdate
    \/ StreamRedelivery
    \/ StreamBar
    \/ StreamAccountUpdate
    \/ StreamOtherUpdate
    \/ interval_elapses
    \/ MainRefresh
    \/ wait_times_out
    \/ main_timeout
    \/ MainProcess
    \/ main_resume

SpecRedelivery == Init /\ [][NextRedelivery]_vars

\* the engine on a stream that reports a live order only to end it.  The
\* event loop runs main whenever it can go on, and main waits at
\* data_queue.get in every iteration, where a report the stream holds is
\* handed to its callback: a report that can be delivered again and again
\* is delivered.
NextLive ==
    \/ StreamTrade
    \/ StreamTerminalUpdate
    \/ interval_elapses
    \/ MainRefresh
    \/ wait_times_out
    \/ main_timeout
    \/ MainProcess

SpecLive ==
    /\ Init
    /\ [][NextLive]_vars
    /\ WF_vars(MainRefresh)
    /\ WF_vars(main_timeout)
    /\ WF_vars(MainProcess)
    /\ SF_vars(StreamTerminalUpdate)


(***************************************************************************)
(* Properties.                                                             *)
(***************************************************************************)
Actionable == {"BUY", "SELL", "CLOSE"}

QueueIds(q) == {q[i].id : i \in 1..Len(q)}

SignedFilled(order) ==
    IF order.side = "buy" THEN order.filled ELSE 0 - order.filled

\* C1: the loop calls place_order only while active_order_id is None, and an
\* actionable signal computed while an order is active makes no gateway call
\* and is logged as held off.
SingleActiveOrder ==
    [][ /\ gateway_calls' # gateway_calls => active_order_id = None
        /\ (/\ dequeued' # dequeued
            /\ active_order_id # None
            /\ last_signal' \in Actionable)
              => /\ gateway_calls' = gateway_calls
                 /\ active_order_id' = active_order_id
                 /\ "holding_off" \in log' ]_vars

DeferredSignalSeen ==
    /\ "holding_off" \in log
    /\ last_signal \in Actionable
    /\ active_order_id # None
    /\ Len(gateway_calls) = 1

\* C2: once the order updates of a submitted order have ended in filled,
\* canceled, expired or rejected, current_position_qty equals the position at
\* submission plus the signed quantity the broker reported filled for it.
PositionConsistency ==
    broker_order.status \in {"filled", "canceled", "expired", "rejected"}
        => current_position_qty = pos_at_submit + SignedFilled(broker_order)

\* C3: TradingState changes only in a step of the loop that processes a
\* dequeued item.
SingleWriter ==
    [][ trading_state' # trading_state => Len(dequeued') = Len(dequeued) + 1 ]_vars

\* C4: items are dequeued one at a time, oldest first, and a submission and
\* its active_order_id update happen within the step that dequeued the item.
FifoProcessing ==
    [][ /\ dequeued' # dequeued =>
              /\ data_queue # <<>>
              /\ dequeued' = Append(dequeued, Head(data_queue).id)
              /\ data_queue' = Tail(data_queue)
              /\ \A i \in 1..Len(dequeued) : dequeued[i] < Head(data_queue).id
        /\ gateway_calls' # gateway_calls =>
              /\ dequeued' # dequeued
              /\ LET placed == gateway_calls'[Len(gateway_calls')]
                 IN  active_order_id' =
                        IF placed.result = "accepted" THEN placed.client_order_id ELSE None
      ]_vars

TwoWaitingDequeuedInOrder ==
    /\ Len(dequeued) >= 2
    /\ data_queue # <<>>
    /\ Head(data_queue).id = dequeued[Len(dequeued)] + 1
    /\ Len(data_queue) = 2

\* C5: an exception while processing an item, or in the refresh, leaves the
\* loop running; the item is gone from the queue and is not dequeued again.
LoopSurvivesErrors ==
    [][ /\ "loop_error" \in log' =>
              /\ pc' \in {"sleep"}
              /\ data_queue' = Tail(data_queue)
              /\ Head(data_queue).id \notin QueueIds(data_queue')
        /\ "refresh_error" \in log' => pc' = "get"
        /\ dequeued' # dequeued =>
              \A i \in 1..Len(dequeued) : dequeued[i] # dequeued'[Len(dequeued')]
        /\ pc = "sleep" => ENABLED main_resume
      ]_vars

ProcessedAfterError ==
    /\ \E i \in 1..Len(prices) : prices[i].kind = "str"
    /\ last_signal = "HOLD"
    /\ pc = "get"

\* C6: a polled position that differs from current_position_qty by more than
\* the tolerance is logged as a mismatch, and the step leaves
\* current_position_qty, active_order_id and target_position_qty unchanged.
DriftLoggedNotCorrected ==
    [][ refreshed' # <<>> =>
            /\ ("position_mismatch" \in log'
                   <=> ExceedsTolerance(refreshed'[1] - current_position_qty))
            /\ current_position_qty' = current_position_qty
            /\ active_order_id' = active_order_id
            /\ target_position_qty' = target_position_qty ]_vars

DriftSeen ==
    /\ refreshed = <<0>>
    /\ current_position_qty = 10
    /\ "position_mismatch" \in log

\* C7: the periodic refresh writes no TradingState field and hands what it
\* fetched to the loop as queue items.
ReconciliationOnlyEnqueues ==
    [][ pc = "refresh" =>
            /\ trading_state' = trading_state
            /\ (refreshed' # <<>> => Len(data_queue') > Len(data_queue)) ]_vars

\* C8: when main has returned, the stream is closed and no active order is
\* left open at the broker.
ShutdownCancelsActiveOrder ==
    pc = "done" => /\ ~stream_open
                   /\ (active_order_id = None \/ ~BrokerOrderLive)

\* C9: while the emergency-stop flag is raised the loop makes no place_order call.
EmergencyStopSuppressesOrders ==
    [][ emergency_stop_triggered => gateway_calls' = gateway_calls ]_vars

\* C10: no two place_order calls of a run carry the same client_order_id.
UniqueClientOrderIds ==
    \A i, j \in 1..Len(gateway_calls) :
        i # j => gateway_calls[i].client_order_id # gateway_calls[j].client_order_id

SubmittedAgainAfterFailure ==
    /\ Len(gateway_calls) >= 2
    /\ gateway_calls[1].result \in {"failed", "rejected"}

\* C14: get_signal appends the price to the rolling window (dropping the
\* oldest once the window is full) and returns HOLD when the window then holds
\* fewer than zscore_period prices or has a standard deviation below 1e-6,
\* whatever the position.
HoldWithoutZscore ==
    [][ strategy_input' # <<>> =>
          LET current_price == strategy_input'[1].price
          IN  /\ prices' = IF Len(prices) < ZscorePeriod
                           THEN Append(prices, current_price)
                           ELSE Append(Tail(prices), current_price)
              /\ (\/ Len(prices') < ZscorePeriod
                  \/ AllNumeric(prices') /\ ZVariance(prices') = 0)
                    => last_signal' = "HOLD" ]_vars

FlatWindowHeldWhileLong ==
    /\ strategy_input # <<>>
    /\ strategy_input[1].position_milli > ToleranceMilli
    /\ Len(prices) = ZscorePeriod
    /\ AllNumeric(prices)
    /\ ZVariance(prices) = 0
    /\ last_signal = "HOLD"

\* C15 as stated: with a z-score available, a position of exactly 0 gives BUY
\* below the lower threshold, SELL above the upper one, else HOLD; any
\* position above 0 gives CLOSE when z >= exit threshold, else HOLD; any
\* position below 0 gives CLOSE when z <= exit threshold, else HOLD; BUY and
\* SELL are returned only at position 0.
DecisionTable ==
    [][ (strategy_input' # <<>> /\ CalculateZscore(prices')) =>
          LET q == strategy_input'[1].position_milli
              w == prices'
          IN  /\ q = 0 => last_signal' = IF ZLess(w, ZscoreLower) THEN "BUY"
                                         ELSE IF ZGreater(w, ZscoreUpper) THEN "SELL"
                                         ELSE "HOLD"
              /\ q > 0 => last_signal' = IF ~ZLess(w, ExitThreshold) THEN "CLOSE" ELSE "HOLD"
              /\ q < 0 => last_signal' = IF ~ZGreater(w, ExitThreshold) THEN "CLOSE" ELSE "HOLD"
              /\ last_signal' \in {"BUY", "SELL"} => q = 0 ]_vars

\* C15 as amended: the same table with flat meaning |position| < 0.01, long
\* meaning position > 0.01 and short meaning position < -0.01; at
\* |position| = 0.01 exactly the signal is HOLD; BUY and SELL are returned
\* only while |position| < 0.01.
DecisionTableWithTolerance ==
    [][ (strategy_input' # <<>> /\ CalculateZscore(prices')) =>
          LET q == strategy_input'[1].position_milli
              w == prices'
          IN  /\ Abs(q) < ToleranceMilli =>
                    last_signal' = IF ZLess(w, ZscoreLower) THEN "BUY"
                                   ELSE IF ZGreater(w, ZscoreUpper) THEN "SELL"
                                   ELSE "HOLD"
              /\ q > ToleranceMilli =>
                    last_signal' = IF ~ZLess(w, ExitThreshold) THEN "CLOSE" ELSE "HOLD"
              /\ q < 0 - ToleranceMilli =>
                    last_signal' = IF ~ZGreater(w, ExitThreshold) THEN "CLOSE" ELSE "HOLD"
              /\ Abs(q) = ToleranceMilli => last_signal' = "HOLD"
              /\ last_signal' \in {"BUY", "SELL"} => Abs(q) < ToleranceMilli ]_vars

ShortClosedAndDustSold ==
    /\ strategy_input # <<>>
    /\ \/ strategy_input[1].position_milli = -10000 /\ last_signal = "CLOSE"
       \/ strategy_input[1].position_milli = -5 /\ last_signal = "SELL"

\* C16: an instance carries a window of at most zscore_period prices, and
\* two instances that hold equal windows and are given the same price and
\* position return the same signal (or both raise) and hold equal windows
\* afterwards, whatever current_zscore each was left with and however each
\* came to its window; so two new instances fed the same inputs return the
\* same signals call after call.
DeterministicSignals ==
    /\ [](/\ Len(prices) <= ZscorePeriod
          /\ Len(replica_prices) <= ZscorePeriod)
    /\ [][ (/\ strategy_input' # <<>>
            /\ replica_input' # <<>>
            /\ replica_input'[1].price = strategy_input'[1].price
            /\ replica_input'[1].position_milli = strategy_input'[1].position_milli
            /\ replica_prices = prices)
              => /\ replica_signal' = last_signal'
                 /\ replica_prices' = prices' ]_vars

\* both instances have just returned an actionable signal from equal windows
\* although they held different current_zscore values before the call
SameSignalFromDifferentZscores ==
    /\ strategy_input # <<>>
    /\ replica_input # <<>>
    /\ replica_input[1].windows_agreed
    /\ ~replica_input[1].zscores_agreed
    /\ last_signal \in Actionable
    /\ replica_signal = last_signal

\* the call the step has just appended to gateway_calls
LastCall(calls) == calls[Len(calls)]

\* the step handed handle_trade_update an order update
OrderUpdateStep ==
    /\ Len(data_queue') = Len(data_queue) + 1
    /\ data_queue'[Len(data_queue')].type = "order_update"

\* C11: a place_order call that returns no usable order leaves active_order_id
\* None, the position and the broker's orders as they were, and the
\* submission guard open to the next actionable signal.
FailedSubmissionLeavesSlotClear ==
    [][ (gateway_calls' # gateway_calls /\ LastCall(gateway_calls').result = "failed") =>
            /\ active_order_id' = None
            /\ current_position_qty' = current_position_qty
            /\ broker_order' = broker_order
            /\ \A sig \in Actionable : MaySubmit(sig, active_order_id') ]_vars

AcceptedAfterFailedSubmission ==
    /\ Len(gateway_calls) = 2
    /\ gateway_calls[1].result = "failed"
    /\ gateway_calls[2].result = "accepted"
    /\ active_order_id = gateway_calls[2].client_order_id

\* C12: every place_order call is made in a step that has consulted the Risk
\* Gate (RiskManager.check_liquidity_risk logs its assessment at every call).
RiskGateConsulted ==
    [][ gateway_calls' # gateway_calls => "liquidity_assessment" \in log' ]_vars

\* C13 as stated: with no active order a signal sets the target (BUY 10,
\* SELL -10, CLOSE 0, HOLD the current position); with |delta| <= 0.01 no
\* order is submitted, otherwise one market order of |delta| is submitted,
\* buy for delta > 0 and sell for delta < 0, and active_order_id is that
\* submission's client_order_id.
OneOrderPerSignal ==
    [][ (dequeued' # dequeued /\ active_order_id = None /\ last_signal' # NoSignal) =>
          LET target == CASE last_signal' = "BUY" -> 10
                          [] last_signal' = "SELL" -> -10
                          [] last_signal' = "CLOSE" -> 0
                          [] OTHER -> current_position_qty
              delta == target - current_position_qty
          IN  /\ target_position_qty' = target
              /\ IF Abs(delta) * 100 <= 1
                 THEN /\ gateway_calls' = gateway_calls
                      /\ active_order_id' = None
                 ELSE /\ Len(gateway_calls') = Len(gateway_calls) + 1
                      /\ SubSeq(gateway_calls', 1, Len(gateway_calls)) = gateway_calls
                      /\ LastCall(gateway_calls').order_type = "market"
                      /\ LastCall(gateway_calls').qty = Abs(delta)
                      /\ LastCall(gateway_calls').side = IF delta > 0 THEN "buy" ELSE "sell"
                      /\ active_order_id' = LastCall(gateway_calls').client_order_id ]_vars

\* C13 as amended: with no active order a signal that the loop has logged
\* (line 301) sets the target as stated and, for |delta| > 0.01, submits one
\* market order of |delta|; active_order_id is set to the submission's
\* client_order_id when place_order returns an order that the broker has not
\* already rejected, and is left None otherwise.  When the log line of the
\* signal raises, the step ends in the loop's error handler with the target,
\* active_order_id and the gateway calls as they were.
OneOrderPerSignalWhenAccepted ==
    [][ (dequeued' # dequeued /\ active_order_id = None /\ last_signal' # NoSignal) =>
          LET target == CASE last_signal' = "BUY" -> 10
                          [] last_signal' = "SELL" -> -10
                          [] last_signal' = "CLOSE" -> 0
                          [] OTHER -> current_position_qty
              delta == target - current_position_qty
          IN  IF "loop_error" \in log'
              THEN /\ target_position_qty' = target_position_qty
                   /\ gateway_calls' = gateway_calls
                   /\ active_order_id' = None
              ELSE /\ target_position_qty' = target
                   /\ IF Abs(delta) * 100 <= 1
                      THEN /\ gateway_calls' = gateway_calls
                           /\ active_order_id' = None
                      ELSE /\ Len(gateway_calls') = Len(gateway_calls) + 1
                           /\ SubSeq(gateway_calls', 1, Len(gateway_calls)) = gateway_calls
                           /\ LastCall(gateway_calls').order_type = "market"
                           /\ LastCall(gateway_calls').qty = Abs(delta)
                           /\ LastCall(gateway_calls').side =
                                 IF delta > 0 THEN "buy" ELSE "sell"
                           /\ active_order_id' =
                                 IF LastCall(gateway_calls').result = "accepted"
                                 THEN LastCall(gateway_calls').client_order_id
                                 ELSE None ]_vars

ShortOpenedFromFlat ==
    /\ Len(gateway_calls) = 1
    /\ gateway_calls[1].side = "sell"
    /\ gateway_calls[1].qty = 10
    /\ gateway_calls[1].result = "accepted"
    /\ last_signal = "SELL"
    /\ target_position_qty = -10
    /\ current_position_qty = 0
    /\ active_order_id = gateway_calls[1].client_order_id

\* C17: a partially_filled update of the active order changes neither
\* active_order_id nor the position; a filled update adds the cumulative
\* filled_qty for a buy, subtracts it for a sell, and clears active_order_id;
\* no other order update changes the position; so an order that has ended
\* filled leaves the position at its value on submission plus the signed
\* order quantity.
PartialFillsWaitForFilled ==
    /\ [][ (OrderUpdateStep /\ active_order_id # None
                /\ active_order_id = broker_order.cid) =>
              /\ broker_order'.status = "partially_filled" =>
                    /\ active_order_id' = active_order_id
                    /\ current_position_qty' = current_position_qty
              /\ broker_order'.status = "filled" =>
                    /\ active_order_id' = None
                    /\ current_position_qty' = current_position_qty +
                          (IF broker_order.side = "buy" THEN broker_order'.filled
                           ELSE 0 - broker_order'.filled)
              /\ current_position_qty' # current_position_qty =>
                    broker_order'.status = "filled" ]_vars
    /\ [](broker_order.status = "filled" =>
             /\ active_order_id = None
             /\ current_position_qty = pos_at_submit +
                   (IF broker_order.side = "buy" THEN broker_order.qty
                    ELSE 0 - broker_order.qty))

SellFilledAfterPartial ==
    /\ broker_order.status = "filled"
    /\ broker_order.side = "sell"
    /\ broker_order.qty = 10
    /\ pos_at_submit = 10
    /\ current_position_qty = 0
    /\ active_order_id = None
    /\ \E i \in 1..Len(data_queue) :
          /\ data_queue[i].data.status = "partially_filled"
          /\ data_queue[i].data.filled_qty = 4

\* C18: a canceled, rejected or expired update of the active order clears
\* active_order_id and leaves the position unchanged, and makes no place_order
\* call; a place_order call is made only in a step that processes a dequeued
\* trade or bar item and gets an actionable signal for it.
NonFillEndClearsWithoutResubmit ==
    [][ /\ (OrderUpdateStep /\ active_order_id # None
               /\ active_order_id = broker_order.cid
               /\ broker_order'.status \in {"canceled", "rejected", "expired"}) =>
              /\ active_order_id' = None
              /\ current_position_qty' = current_position_qty
              /\ gateway_calls' = gateway_calls
        /\ gateway_calls' # gateway_calls =>
              /\ dequeued' # dequeued
              /\ Head(data_queue).type \in {"trade", "bar"}
              /\ last_signal' \in Actionable ]_vars

ResubmittedAfterExpiry ==
    /\ Len(gateway_calls) = 2
    /\ gateway_calls[1].result = "accepted"
    /\ active_order_id = gateway_calls[2].client_order_id
    /\ \E i \in 1..Len(data_queue) :
          /\ data_queue[i].data.client_order_id = gateway_calls[1].client_order_id
          /\ data_queue[i].data.status = "expired"

\* C19: an order update that carries the client_order_id of an order that has
\* already ended changes neither the position nor active_order_id, whether
\* no order or a newer order is active.
EndedOrderUpdatesIgnored ==
    [][ (/\ OrderUpdateStep
         /\ LET cid == data_queue'[Len(data_queue')].data.client_order_id
            IN  cid # broker_order.cid \/ ~BrokerOrderLive) =>
            /\ current_position_qty' = current_position_qty
            /\ active_order_id' = active_order_id ]_vars

FilledTwiceWhileNewerActive ==
    /\ Len(data_queue) = 2
    /\ Len(gateway_calls) = 2
    /\ \A i \in 1..2 :
          /\ data_queue[i].data.client_order_id = gateway_calls[1].client_order_id
          /\ data_queue[i].data.status = "filled"
    /\ active_order_id = gateway_calls[2].client_order_id
    /\ current_position_qty = pos_at_submit

\* C20: the price handed to get_signal when a trade or bar item is processed
\* is the price that item carries.
EventPriceHandedToGenerator ==
    [][ (dequeued' # dequeued /\ Head(data_queue).type \in {"trade", "bar"}) =>
            /\ strategy_input' # <<>>
            /\ strategy_input'[1].price = Head(data_queue).price ]_vars

\* C21: a periodic refresh whose account or position fetch fails logs the
\* failure, reports no drift computed from the missing data, does not fetch
\* again within the attempt and leaves the next fetch to the next interval.
FailedFetchReportsNoDrift ==
    [][ pc = "refresh" =>
          /\ "position_fetch_failed" \in log' => "position_mismatch" \notin log'
          /\ "account_fetch_failed" \in log' => "cash_mismatch" \notin log'
          /\ log' \cap {"position_fetch_failed", "account_fetch_failed",
                        "refresh_error"} # {} =>
                /\ pc' = "get"
                /\ refresh_due' = FALSE
      ]_vars

\* C22: retry_with_backoff calls the function at most max_retries + 1 times
\* for the category's configuration; the first call that succeeds ends it with
\* no further call and no record; when every call has failed it appends
\* exactly one record, HIGH for ORDER_EXECUTION and RISK_MANAGEMENT and MEDIUM
\* for the other categories, and raises.
RetryIsBounded ==
    [][ /\ retry_call'.status # "idle" =>
              retry_call'.calls <= MaxRetries(retry_call'.category) + 1
        /\ (retry_call.status \in {"returned", "raised"} /\ retry_call' # retry_call) =>
              retry_call'.status = "running" /\ retry_call'.calls = 0
        /\ (retry_call.status = "running" /\ retry_call' # retry_call) =>
              /\ retry_call'.calls = retry_call.calls + 1
              /\ retry_call'.category = retry_call.category
              /\ emergency_stop_triggered' = emergency_stop_triggered
              /\ \/ /\ retry_call'.status = "returned"
                    /\ error_records' = error_records
                 \/ /\ retry_call'.status = "running"
                    /\ retry_call'.calls <= MaxRetries(retry_call.category)
                    /\ error_records' = error_records
                 \/ /\ retry_call'.status = "recording"
                    /\ retry_call'.calls = MaxRetries(retry_call.category) + 1
                    /\ error_records' = Append(error_records,
                          [category |-> retry_call.category,
                           severity |-> IF retry_call.category \in
                                           {"order_execution", "risk_management"}
                                        THEN "high" ELSE "medium"])
        \* handle_exception returns and the last exception is raised again
        /\ (retry_call.status = "recording" /\ retry_call' # retry_call) =>
              /\ retry_call' = [retry_call EXCEPT !.status = "raised"]
              /\ error_records' = error_records
              /\ emergency_stop_triggered' = emergency_stop_triggered
        \* no other call appends a record for the thread while it is in the call
        /\ (retry_call.status = "recording" /\ retry_call' = retry_call) =>
              handling'[RetryThread] = handling[RetryThread]
      ]_vars

\* a NETWORK call raised after its sixth failure, after an ORDER_EXECUTION
\* call had raised too
RetriesExhausted ==
    /\ retry_call = [status |-> "raised", category |-> "network", calls |-> 6]
    /\ error_records = <<[category |-> "order_execution", severity |-> "high"],
                         [category |-> "network", severity |-> "medium"]>>

\* C30: emergency_stop_triggered becomes true only when a handle_exception
\* call of severity CRITICAL, whose record is among those kept, returns, and
\* false only in reset_emergency_stop, which touches nothing else; a
\* retry_with_backoff that gives up and an error callback that raises leave
\* the flag to the severity test alone; every handle_exception call appends
\* exactly one record, its own, and the records grow in no other way.
EmergencyStopOnlyOnCritical ==
    [][ /\ (~emergency_stop_triggered /\ emergency_stop_triggered') =>
              /\ \E t \in Threads :
                    /\ handling[t].status = "callbacks"
                    /\ handling[t].severity = "critical"
                    /\ handling'[t].status = "idle"
                    /\ \E i \in 1..Len(error_records) :
                          /\ error_records[i].severity = "critical"
                          /\ error_records[i].category = handling[t].category
              /\ retry_call' = retry_call
        /\ (emergency_stop_triggered /\ ~emergency_stop_triggered') =>
              /\ error_records' = error_records
              /\ retry_call' = retry_call
              /\ handling' = handling
        /\ retry_call' # retry_call =>
              emergency_stop_triggered' = emergency_stop_triggered
        /\ "callback_error" \in log' =>
              \E t \in Threads :
                 /\ handling[t].status = "callbacks"
                 /\ handling'[t].status = "idle"
                 /\ emergency_stop_triggered' =
                       (emergency_stop_triggered \/ handling[t].severity = "critical")
        \* a call appends one record, its own, and no record comes otherwise
        /\ \A t \in Threads :
              (handling[t].status = "idle" /\ handling'[t].status = "callbacks") =>
                 error_records' = Append(error_records,
                                         [category |-> handling'[t].category,
                                          severity |-> handling'[t].severity])
        /\ error_records' # error_records =>
              /\ Len(error_records') = Len(error_records) + 1
              /\ SubSeq(error_records', 1, Len(error_records)) = error_records
              /\ \E t \in Threads :
                    handling[t].status = "idle" /\ handling'[t].status = "callbacks"
      ]_vars

\* the flag raised by a CRITICAL error whose callback raised, after an
\* ORDER_EXECUTION retry had given up and left the flag down
StoppedAfterRetriesGaveUp ==
    /\ emergency_stop_triggered
    /\ "callback_error" \in log
    /\ retry_call.status = "raised"
    /\ error_records = <<[category |-> "order_execution", severity |-> "high"],
                         [category |-> "system", severity |-> "critical"]>>

\* the number of threads inside the wrapped function
InFunc(where) == Cardinality({t \in Threads : where[t] = "func"})

\* C27: a CLOSED breaker opens when, and only when, a call fails with an
\* expected exception and failure_count, which such a failure raises by one
\* and a success puts back to 0, reaches failure_threshold; every success
\* leaves the breaker CLOSED with failure_count 0; an OPEN breaker has
\* failure_count >= failure_threshold.
BreakerOpensAtThreshold ==
    [][ /\ (state = "CLOSED" /\ state' = "OPEN") =>
              /\ log' = {"expected"}
              /\ failure_count' = FailureThreshold
        /\ (state = "CLOSED" /\ log' = {"expected"}) =>
              /\ failure_count' = failure_count + 1
              /\ state' = IF failure_count + 1 >= FailureThreshold
                          THEN "OPEN" ELSE "CLOSED"
        /\ (state = "CLOSED" /\ failure_count' # failure_count) =>
              log' \in {{"expected"}, {"returns"}}
        /\ log' = {"returns"} =>
              /\ failure_count' = 0
              /\ state' = "CLOSED"
        /\ state' = "OPEN" => failure_count' >= FailureThreshold
      ]_vars

\* the breaker opened by its threshold-th failure, after the clock had moved
TrippedAtThreshold ==
    /\ state = "OPEN"
    /\ log = {"expected"}
    /\ failure_count = FailureThreshold
    /\ last_failure_time > 1

\* C28: while the breaker is OPEN and less than recovery_timeout has passed
\* since the last failure, no call reaches the wrapped function and no call
\* changes state, failure_count or last_failure_time; a breaker that is not
\* CLOSED lets the function be called only once recovery_timeout has passed
\* since the last failure; never are two threads inside the function.
OpenBreakerRejects ==
    [][ /\ (state = "OPEN" /\ now - last_failure_time < RecoveryTimeout) =>
              /\ breaker_pc' = breaker_pc
              /\ InFunc(breaker_pc) = 0
              /\ UNCHANGED <<state, failure_count, last_failure_time>>
        /\ "call_rejected" \in log' =>
              /\ state = "OPEN"
              /\ breaker_pc' = breaker_pc
              /\ UNCHANGED <<state, failure_count, last_failure_time>>
        /\ (InFunc(breaker_pc') > InFunc(breaker_pc) /\ state # "CLOSED") =>
              /\ last_failure_time # None
              /\ now - last_failure_time >= RecoveryTimeout
        /\ InFunc(breaker_pc') <= 1
      ]_vars

\* a call rejected one tick after the failure that opened the breaker
RejectedWithinTimeout ==
    /\ state = "OPEN"
    /\ log = {"call_rejected"}
    /\ now - last_failure_time = 1

\* C29: HALF_OPEN does not outlast the trial call: whatever the wrapped
\* function does, when call() is over the breaker is CLOSED with failure_count
\* 0 or OPEN with last_failure_time refreshed.
HalfOpenIsTransient ==
    [][ (state = "HALF_OPEN" /\ InFunc(breaker_pc') < InFunc(breaker_pc)) =>
           \/ state' = "CLOSED" /\ failure_count' = 0
           \/ state' = "OPEN" /\ last_failure_time' = now
      ]_vars

\* C23: no fill arrives too early to be counted: a callback runs only while
\* main waits, never between the test of active_order_id and its assignment,
\* so while the broker holds a live order active_order_id is that order's
\* client_order_id, every update of it is handled with active_order_id equal
\* to its client_order_id, and its filled update moves the position.
UpdatesFindOrderActive ==
    /\ [](BrokerOrderLive => active_order_id = broker_order.cid)
    /\ [][ (OrderUpdateStep /\ BrokerOrderLive
               /\ data_queue'[Len(data_queue')].data.client_order_id = broker_order.cid) =>
              /\ pc \in {"get", "timeout", "sleep", "finally"}
              /\ active_order_id = data_queue'[Len(data_queue')].data.client_order_id
              /\ data_queue'[Len(data_queue')].data.status = "filled" =>
                    /\ current_position_qty' =
                          current_position_qty + SignedFilled(broker_order')
                    /\ active_order_id' = None
          ]_vars

\* the fill was the first update delivered after the acknowledgement, and it
\* was counted
FillCountedRightAfterAck ==
    /\ Len(gateway_calls) = 1
    /\ gateway_calls[1].result = "accepted"
    /\ n_updates = 1
    /\ Len(data_queue) = 1
    /\ data_queue[1].data.status = "filled"
    /\ data_queue[1].data.client_order_id = gateway_calls[1].client_order_id
    /\ broker_order.status = "filled"
    /\ current_position_qty = pos_at_submit + SignedFilled(broker_order)
    /\ current_position_qty # pos_at_submit
    /\ active_order_id = None

\* the queue item the step has just appended
Delivered == data_queue'[Len(data_queue')]

\* C24: active_order_id goes from set to None only in an order update whose
\* client_order_id is active_order_id and whose status is filled, canceled,
\* expired, rejected or done_for_day; a submission acknowledged as already
\* rejected leaves it None; it is set only by an accepted submission; the
\* position changes only in a filled update of the active order; trade and bar
\* events, account updates, order updates of another client_order_id, queue
\* timeouts and the periodic refresh change neither.
ActiveOrderFrame ==
    [][ /\ (active_order_id # None /\ active_order_id' = None) =>
              /\ OrderUpdateStep
              /\ Delivered.data.client_order_id = active_order_id
              /\ Delivered.data.status \in
                    {"filled", "canceled", "expired", "rejected", "done_for_day"}
        /\ (active_order_id # None /\ active_order_id' # None) =>
              active_order_id' = active_order_id
        /\ (active_order_id = None /\ active_order_id' # None) =>
              /\ gateway_calls' # gateway_calls
              /\ LastCall(gateway_calls').result = "accepted"
        /\ (gateway_calls' # gateway_calls /\ LastCall(gateway_calls').result = "rejected") =>
              active_order_id' = None
        /\ current_position_qty' # current_position_qty =>
              /\ OrderUpdateStep
              /\ Delivered.data.client_order_id = active_order_id
              /\ Delivered.data.status = "filled"
        /\ (\/ n_prices' # n_prices
            \/ Len(data_queue') = Len(data_queue) + 1 /\ Delivered.type = "account_update"
            \/ OrderUpdateStep /\ Delivered.data.client_order_id # active_order_id
            \/ pc = "get" /\ data_queue = <<>> /\ data_queue' = <<>>
            \/ pc = "refresh") =>
              /\ active_order_id' = active_order_id
              /\ current_position_qty' = current_position_qty
      ]_vars

\* the active order ended for the day without a fill and was cleared, and
\* the refresh that followed polled another quantity and changed nothing
ClearedAtDayEndThenRefreshed ==
    /\ active_order_id = None
    /\ Len(gateway_calls) = 1
    /\ broker_order.status = "done_for_day"
    /\ broker_order.cid = gateway_calls[1].client_order_id
    /\ current_position_qty = pos_at_submit
    /\ refreshed # <<>>
    /\ refreshed[1] # current_position_qty

\* C25: an order or account update acts on TradingState once, in the callback
\* that receives it: an account update stores its cash and value there; the
\* order_update or account_update item dequeued later changes no TradingState
\* field, feeds no price to the strategy and makes no place_order call; so an
\* order that has ended filled has moved the position by its quantity once.
UpdatesAppliedOnce ==
    /\ [][ (dequeued' # dequeued
               /\ Head(data_queue).type \in {"order_update", "account_update"}) =>
              /\ UNCHANGED trading_state
              /\ prices' = prices
              /\ gateway_calls' = gateway_calls
              /\ broker_order' = broker_order
          ]_vars
    /\ [][ (Len(data_queue') = Len(data_queue) + 1
               /\ Delivered.type = "account_update") =>
              \E a \in AccountSnapshots :
                  /\ last_known_cash' = a.cash
                  /\ last_known_portfolio_value' = a.value
          ]_vars
    /\ [](broker_order.status = "filled" =>
             current_position_qty = pos_at_submit + SignedFilled(broker_order))

\* two updates, the fill among them, were applied on receipt, and their queue
\* items have since been taken and processed
UpdateItemsProcessed ==
    /\ n_updates = 2
    /\ data_queue = <<>>
    /\ Len(dequeued) = n_prices + n_updates
    /\ broker_order.status = "filled"
    /\ current_position_qty = pos_at_submit + SignedFilled(broker_order)
    /\ current_position_qty # pos_at_submit

\* C26: on a stream that delivers the update ending each accepted order,
\* active_order_id, once set, is None again later on; and while it is set,
\* no step but the handling of such an update of the active order (no
\* timeout, no refresh, no processed item) changes it.
ActiveOrderEventuallyCleared ==
    /\ (active_order_id # None /\ n_updates < MaxUpdateEvents)
           ~> (active_order_id = None)
    /\ [][ (active_order_id # None /\ active_order_id' # active_order_id) =>
              /\ OrderUpdateStep
              /\ Delivered.data.client_order_id = active_order_id
              /\ Delivered.data.status \in TerminalStatuses
              /\ active_order_id' = None
          ]_vars

\* two orders accepted one after the other, each cleared by the update that
\* ended it
BothOrdersCleared ==
    /\ Len(gateway_calls) = 2
    /\ \A i \in 1..2 : gateway_calls[i].result = "accepted"
    /\ n_updates = 2
    /\ broker_order.status \in TerminalStatuses
    /\ active_order_id = None

====
